---------------------------- MODULE Spec2Model ----------------------------
(***************************************************************************)
(* Flat iteration layer of ecss_benchmarks (src/src/ecss_flat_iterator.h): *)
(* FlatView and FlatComponentView walk a contiguous array of fixed-stride  *)
(* sectors, skip the sectors whose requested components are not alive and  *)
(* expose the sector record or references to its component fields.         *)
(*                                                                         *)
(* Memory is a map from byte addresses to values.  A sector at address a   *)
(* holds its EntityId at a, its liveness field at a + AliveOffset and the  *)
(* value of component T at a + offset(T).  Reading an address outside the  *)
(* live buffer, and violating a FLAT_ASSUME, is undefined behaviour: the   *)
(* operation then ends in any of the outcomes of UndefinedIterators (or    *)
(* the program stops), and ub records that it happened.                    *)
(***************************************************************************)
EXTENDS Integers, Sequences, FiniteSets, TLC

VARIABLES
    request,      \* Components...: the requested component types, in order
    kind,         \* "FlatView" or "FlatComponentView"
    threadSafe,   \* the ThreadSafe template argument
    mem,          \* the storage's live buffer: address -> value
    storageBase,  \* address of the first sector of the buffer (at(0))
    storageCount, \* the container's size()
    view,         \* the view object's members
    it,           \* the loop's iterator (begin(), then ++)
    endIt,        \* the loop's end() iterator
    cur,          \* what the last operator* returned
    produced,     \* the positions operator* was applied at, in order
    writes,       \* the writes made through yielded references, in order
    pc,           \* the calling code's position
    ub,           \* undefined behaviour has happened
    rlock,        \* number of read locks held on the container
    wlock,        \* the writer holds the container's write lock
    held,         \* the constructor's `lock` object is alive
    epoch,        \* number of structural mutations the storage has seen
    reads,        \* the constructor's reads of size() and at(0)
    calls,        \* the arguments begin() and end() passed to Iterator(...)
    probed,       \* the addresses the iterators have read liveness fields at
    hinted,       \* the prefetch hints the iterators have issued
    flips,        \* the liveness bits changed while the view was alive
    bench         \* the benchmark routine that runs, or the earlier pass kept aside

vars == <<request, kind, threadSafe, mem, storageBase, storageCount, view, it,
          endIt, cur, produced, writes, pc, ub, rlock, wlock, held, epoch,
          reads, calls, probed, hinted, flips, bench>>

---------------------------------------------------------------------------
(* Bounds of the model *)

\* Largest number of sectors the array holds
MaxCount == 3

\* Most writes through yielded references followed in one run
MaxWrites == 1

---------------------------------------------------------------------------
(* The storage and its Layout (external to the repository) *)

NullPtr == 0

\* Offset of Sector::isAliveData behind Sector::id
AliveOffset == 4

\* Heap addresses the storage may place its buffer at (8-byte aligned)
BufferBase == 8 * 8
MovedBase == 8 * 64

Types == {"X", "Y", "U"}

\* registerArray<X, Y>() groups X and Y in array "A"; U lives alone in "B"
ArrayOf(t) == IF t \in {"X", "Y"} THEN "A" ELSE "B"

\* std::tuple_element_t<0, std::tuple<Components...>>; an empty pack has none
FirstComponent(req) == IF req = <<>> THEN "none" ELSE req[1]

\* No check of the pack at all
StaticAsserts_None(k, req) == TRUE

\* What an instantiation of the view must satisfy to compile:
\* static_assert(sizeof...(Components) > 0) in FlatView, and FirstComponent,
\* the element 0 of the pack, to exist in both views
StaticAsserts(k, req) ==
    /\ k = "FlatView" => Len(req) > 0
    /\ FirstComponent(req) # "none"

\* Layout of an array: total size of a sector, and per hosted type its
\* byte offset in the sector and its liveness bit
LayoutOf(arr) ==
    IF arr = "A"
    THEN [totalSize |-> 24,
          data |-> [X |-> [offset |-> 8, isAliveMask |-> 1],
                    Y |-> [offset |-> 16, isAliveMask |-> 2]]]
    ELSE [totalSize |-> 16,
          data |-> [U |-> [offset |-> 8, isAliveMask |-> 1]]]

Hosted(arr) == DOMAIN LayoutOf(arr).data

\* What getLayoutData<T>() may hand back for a type the array does not host:
\* another entry of the table or whatever lies behind it
ForeignLayoutData(layout) ==
    {layout.data[t] : t \in DOMAIN layout.data}
        \cup {[offset |-> 40, isAliveMask |-> 4]}

\* layout->getLayoutData<T>()
getLayoutData(layout, t, foreign) ==
    IF t \in DOMAIN layout.data THEN layout.data[t] ELSE foreign

RECURSIVE BitAnd(_, _)
BitAnd(a, b) ==
    IF a = 0 \/ b = 0 THEN 0
    ELSE (a % 2) * (b % 2) + 2 * BitAnd(a \div 2, b \div 2)

RECURSIVE BitOr(_, _)
BitOr(a, b) ==
    IF a = 0 THEN b
    ELSE IF b = 0 THEN a
    ELSE (IF a % 2 = 1 \/ b % 2 = 1 THEN 1 ELSE 0)
             + 2 * BitOr(a \div 2, b \div 2)

\* Liveness fields a sector of the array can carry
RECURSIVE OrAll(_)
OrAll(S) == IF S = {} THEN 0
            ELSE LET m == CHOOSE x \in S : TRUE IN BitOr(m, OrAll(S \ {m}))

\* Every liveness bit of the array set
FullMask(arr) ==
    OrAll({LayoutOf(arr).data[t].isAliveMask : t \in Hosted(arr)})

AliveVals(arr) == 0 .. FullMask(arr)

IdOf(i) == 100 + i

\* Address of sector i (0-based) of a buffer at base
SectorAddr(base, stride, i) == base + stride * i

\* The sectors from .. from + n - 1 of the buffer at base, with liveness
\* alive[i] and zeroed payloads
Buffer(arr, base, from, n, alive) ==
    LET L == LayoutOf(arr)
        cells == UNION {
            {<<SectorAddr(base, L.totalSize, i), IdOf(i)>>,
             <<SectorAddr(base, L.totalSize, i) + AliveOffset, alive[i]>>}
              \cup {<<SectorAddr(base, L.totalSize, i) + L.data[t].offset, 0>>
                      : t \in Hosted(arr)}
            : i \in from .. from + n - 1}
    IN [a \in {c[1] : c \in cells} |->
            (CHOOSE c \in cells : c[1] = a)[2]]

---------------------------------------------------------------------------
(* The iterators *)

ViewKinds == {"FlatView", "FlatComponentView"}

\* Width of size_t in the model: mRemaining wraps below 0 to 2^SizeBits - 1
\* (64 bits in the code; the wrapped value is only ever compared with 0 and 1)
SizeBits == 30

\* FlatView::Iterator asserts its data pointer to be 8-byte aligned
AlignMask == 7

Iter(data, stride, remaining, mask, offsets) ==
    [mData |-> data, mStride |-> stride, mRemaining |-> remaining,
     mAliveMask |-> mask, mOffsets |-> offsets]

\* Iterator() = default
DefaultIterator == Iter(NullPtr, 0, 0, 0, <<>>)

Readable(a) == a \in DOMAIN mem

\* (sector->isAliveData & mAliveMask) == mAliveMask
IsAlive(i) == BitAnd(mem[i.mData + AliveOffset], i.mAliveMask) = i.mAliveMask

\* skipDead(): the iterator it stops at, whether it read outside the buffer
\* on the way, the prefetch hints it issued (the target, and the sectors
\* remaining when it was issued) and the addresses it read a liveness field at
RECURSIVE skipDead(_, _, _)
skipDead(i, hints, seen) ==
    IF i.mRemaining > 0
    THEN LET h == IF i.mRemaining > 1
                  THEN hints \cup {[target |-> i.mData + i.mStride,
                                     left |-> i.mRemaining]}
                  ELSE hints
             s == seen \cup {i.mData + AliveOffset}
         IN IF ~Readable(i.mData + AliveOffset)
            THEN [it |-> i, oob |-> TRUE, prefetch |-> h, read |-> s]
            ELSE IF IsAlive(i)
            THEN [it |-> i, oob |-> FALSE, prefetch |-> h, read |-> s]
            ELSE skipDead([i EXCEPT !.mData = @ + i.mStride,
                                    !.mRemaining = @ - 1], h, s)
    ELSE [it |-> i, oob |-> FALSE, prefetch |-> hints, read |-> seen]

\* What an iterator may be after undefined behaviour: as computed so far, or
\* anywhere around the buffer with sectors left or not
UndefinedIterators(i) ==
    {i} \cup {[i EXCEPT !.mData = d, !.mRemaining = r] :
                d \in {NullPtr, storageBase, storageBase + i.mStride},
                r \in 0 .. 1}

\* The outcome of a defined operation: the iterator and what it read
Defined(i, rd) == {[it |-> i, ub |-> FALSE, crashed |-> FALSE, read |-> rd]}

\* The outcomes of an undefined one; an iterator left with sectors remaining
\* has read the liveness field at its position
Undefined(i, rd) ==
    {[it |-> j, ub |-> TRUE, crashed |-> FALSE,
      read |-> IF j.mRemaining > 0 THEN rd \cup {j.mData + AliveOffset} ELSE rd]
        : j \in UndefinedIterators(i)}
        \cup {[it |-> i, ub |-> TRUE, crashed |-> TRUE, read |-> rd]}

\* The outcomes S of an operation that issued the prefetch hints h
Hinting(S, h) ==
    {[it |-> o.it, ub |-> o.ub, crashed |-> o.crashed, read |-> o.read,
      hints |-> h] : o \in S}

\* FLAT_ASSUME(...) of the Iterator constructors
CtorAssumptions(k, i) ==
    /\ i.mData # NullPtr
    /\ i.mStride > 0
    /\ k = "FlatView" => i.mData % (AlignMask + 1) = 0

\* Iterator(data, stride, count, aliveMask[, offsets]): the outcomes
IteratorCtor(k, i) ==
    IF ~CtorAssumptions(k, i) THEN Hinting(Undefined(i, {}), {})
    ELSE LET r == skipDead(i, {}, {})
         IN Hinting(IF r.oob THEN Undefined(r.it, r.read)
                    ELSE Defined(r.it, r.read), r.prefetch)

\* FLAT_ASSUME(mRemaining > 0) of FlatView::Iterator::operator++
IncAssumptions(k, i) == k = "FlatView" => i.mRemaining > 0

\* operator++ that does not run skipDead after the step
Increment_NoSkip(k, i) ==
    IF ~IncAssumptions(k, i) THEN Hinting(Undefined(i, {}), {})
    ELSE Hinting(Defined([i EXCEPT !.mData = @ + i.mStride,
                                   !.mRemaining = (@ - 1) % (2 ^ SizeBits)],
                         {}), {})

\* operator++: the outcomes
Increment(k, i) ==
    IF ~IncAssumptions(k, i) THEN Hinting(Undefined(i, {}), {})
    ELSE LET j == [i EXCEPT !.mData = @ + i.mStride,
                            !.mRemaining = (@ - 1) % (2 ^ SizeBits)]
             r == skipDead(j, {}, {})
         IN Hinting(IF r.oob THEN Undefined(r.it, r.read)
                    ELSE Defined(r.it, r.read), r.prefetch)

\* operator== / operator!=
IterEq(a, b) == a.mData = b.mData

\* FLAT_ASSUME(...) of operator*
DerefAssumptions(k, i) ==
    /\ i.mData # NullPtr
    /\ k = "FlatView" => i.mRemaining > 0
    /\ Readable(i.mData) /\ Readable(i.mData + AliveOffset)
    /\ IsAlive(i)

\* makeValue with every reference taken at the first offset
makeValue_FirstOffset(base, id, offsets) ==
    [pos |-> base, id |-> id,
     refs |-> [j \in 1 .. Len(offsets) |-> base + offsets[1]]]

\* makeValue: one reference per requested component, at mData + mOffsets[j]
makeValue(base, id, offsets) ==
    [pos |-> base, id |-> id,
     refs |-> [j \in 1 .. Len(offsets) |-> base + offsets[j]]]

\* operator*: the sector record (FlatView) or the tuple (FlatComponentView)
Deref(i) == makeValue(i.mData, mem[i.mData], i.mOffsets)

---------------------------------------------------------------------------
(* The views *)

\* A view object before its constructor body has run
DefaultView ==
    [mSectors |-> "none", mBasePtr |-> NullPtr, mSize |-> 0, mStride |-> 0,
     mAliveMask |-> 0, mOffsets |-> <<>>]

\* registry->getComponentContainer<FirstComponent>()
getComponentContainer(req) == ArrayOf(FirstComponent(req))

\* The mask taken from the first requested type alone
CombinedMask_FirstOnly(layout, req, foreign) ==
    getLayoutData(layout, FirstComponent(req), foreign).isAliveMask

\* ((mAliveMask |= layout->getLayoutData<Components>().isAliveMask), ...)
RECURSIVE CombinedMask(_, _, _)
CombinedMask(layout, req, foreign) ==
    IF req = <<>> THEN 0
    ELSE BitOr(CombinedMask(layout, SubSeq(req, 1, Len(req) - 1), foreign),
               getLayoutData(layout, req[Len(req)], foreign).isAliveMask)

\* The offsets table filled without advancing idx: every offset lands in
\* slot 0 and the other slots keep their zero
Offsets_NoAdvance(k, layout, req, foreign) ==
    IF k = "FlatView" THEN <<>>
    ELSE [j \in 1 .. Len(req) |->
            IF j = 1 THEN getLayoutData(layout, req[Len(req)], foreign).offset
            ELSE 0]

\* ((mOffsets[idx++] = layout->getLayoutData<Components>().offset), ...)
Offsets(k, layout, req, foreign) ==
    IF k = "FlatView" THEN <<>>
    ELSE [j \in 1 .. Len(req) |-> getLayoutData(layout, req[j], foreign).offset]

\* mSectors->at(0)
at0 == storageBase

\* The constructor's steps on the view v
SetContainer(v, req) == [v EXCEPT !.mSectors = getComponentContainer(req)]

SetSize(v) == [v EXCEPT !.mSize = storageCount]

SetLayout(k, v, req, foreign) ==
    LET layout == LayoutOf(v.mSectors)
    IN [v EXCEPT !.mStride = layout.totalSize,
                 !.mOffsets = Offsets(k, layout, req, foreign),
                 !.mAliveMask = CombinedMask(layout, req, foreign)]

SetBase(v) == IF v.mSize > 0 THEN [v EXCEPT !.mBasePtr = at0] ELSE v

\* The whole constructor
ViewCtor(k, req, foreign) ==
    SetBase(SetLayout(k, SetSize(SetContainer(DefaultView, req)), req, foreign))

\* begin() reading the storage anew instead of the view's members
begin_Live(v) == Iter(at0, v.mStride, storageCount, v.mAliveMask, v.mOffsets)

\* The arguments begin() and end() construct their iterators from
begin(v) == Iter(v.mBasePtr, v.mStride, v.mSize, v.mAliveMask, v.mOffsets)

end(v) == Iter(v.mBasePtr + v.mStride * v.mSize, v.mStride, 0,
               v.mAliveMask, v.mOffsets)

---------------------------------------------------------------------------
(* The calling code: for (auto x : view) { ... } *)

config == <<request, kind, threadSafe>>
aside == <<flips, bench, hinted>>
storage == <<mem, storageBase, storageCount, epoch>>
locks == <<rlock, wlock, held>>

Requests ==
    {<<>>} \cup {<<a>> : a \in Types}
        \cup {<<a, b>> : <<a, b>> \in {t \in Types \X Types : t[1] # t[2]}}

WriteVals == {7, 9}

\* What the constructor read from the storage, and how
NoReads ==
    [size |-> [value |-> 0, locked |-> FALSE, epoch |-> 0, base |-> NullPtr],
     base |-> [value |-> NullPtr, locked |-> FALSE, epoch |-> 0, count |-> 0]]

\* No benchmark routine runs beside the views
NoBench == [name |-> "none"]

\* begin() and end() not called yet
NoCalls ==
    [begin |-> DefaultIterator, end |-> DefaultIterator,
     beginRead |-> {}, endRead |-> {}]

\* Sectors with all of their components alive or none
AllOrNone(arr) == {0, FullMask(arr)}

InitWith(ts) ==
    \E req \in Requests, k \in ViewKinds, n \in 0 .. MaxCount :
      \E alive \in [0 .. n - 1 -> IF ts
                                   THEN AllOrNone(getComponentContainer(req))
                                   ELSE AliveVals(getComponentContainer(req))] :
        /\ request = req
        /\ kind = k
        /\ threadSafe = ts
        /\ storageBase = BufferBase
        /\ storageCount = n
        /\ mem = Buffer(getComponentContainer(req), BufferBase, 0, n, alive)
        /\ epoch = 0
        /\ view = DefaultView
        /\ it = DefaultIterator
        /\ endIt = DefaultIterator
        /\ cur = makeValue(NullPtr, 0, <<>>)
        /\ produced = <<>>
        /\ writes = <<>>
        /\ pc = "start"
        /\ ub = FALSE
        /\ rlock = 0
        /\ wlock = FALSE
        /\ held = FALSE
        /\ reads = NoReads
        /\ calls = NoCalls
        /\ probed = {}
        /\ hinted = {}
        /\ flips = <<>>
        /\ bench = NoBench

Init == InitWith(FALSE)

\* The constructor's read of size(), or of at(0) when mSize > 0, recorded
\* with the lock it held and the storage state it saw: the number of
\* mutations so far and the value the other read would have returned then
ReadsOf(v, r, what) ==
    IF what = "size"
    THEN [r EXCEPT !.size = [value |-> storageCount, locked |-> held,
                             epoch |-> epoch, base |-> storageBase]]
    ELSE IF v.mSize > 0
    THEN [r EXCEPT !.base = [value |-> at0, locked |-> held,
                             epoch |-> epoch, count |-> storageCount]]
    ELSE r

\* The instantiation of the view does not compile: there is no view object
\* and no constructor call
IllFormed ==
    /\ pc = "start"
    /\ ~StaticAsserts(kind, request)
    /\ pc' = "rejected"
    /\ UNCHANGED <<config, storage, locks, view, it, endIt, cur, produced,
                   writes, ub, reads, calls, probed, aside>>

\* FlatView(Registry*) / FlatComponentView(Registry*), ThreadSafe == false
Construct ==
    /\ pc = "start"
    /\ ~threadSafe
    /\ StaticAsserts(kind, request)
    /\ \E f \in ForeignLayoutData(LayoutOf(getComponentContainer(request))) :
          view' = ViewCtor(kind, request, f)
    /\ reads' = ReadsOf(view', ReadsOf(view', reads, "size"), "base")
    /\ pc' = "constructed"
    /\ UNCHANGED <<config, storage, locks, it, endIt, cur, produced, writes,
                   ub, calls, probed, aside>>

\* The range-for evaluates view.begin() and view.end()
BeginEnd ==
    /\ pc = "constructed"
    /\ \E b \in IteratorCtor(kind, begin(view)),
          e \in IteratorCtor(kind, end(view)) :
          /\ calls' = [begin |-> begin(view), end |-> end(view),
                       beginRead |-> b.read, endRead |-> e.read]
          /\ probed' = probed \cup b.read \cup e.read
          /\ hinted' = hinted \cup b.hints \cup e.hints
          /\ it' = b.it
          /\ endIt' = e.it
          /\ ub' = (ub \/ b.ub \/ e.ub)
          /\ pc' = IF b.crashed \/ e.crashed THEN "crashed" ELSE "loop"
    /\ UNCHANGED <<config, storage, locks, view, cur, produced, writes, reads,
                   flips, bench>>

\* it != end is false: the loop ends
Finish ==
    /\ pc = "loop"
    /\ IterEq(it, endIt)
    /\ pc' = "done"
    /\ UNCHANGED <<config, storage, locks, view, it, endIt, cur, produced,
                   writes, ub, reads, calls, probed, aside>>

\* operator* that marks the sector it yields as consumed
Dereference_Consumes ==
    /\ pc = "loop"
    /\ ~IterEq(it, endIt)
    /\ Readable(it.mData + AliveOffset)
    /\ produced' = Append(produced, it.mData)
    /\ cur' = Deref(it)
    /\ mem' = [mem EXCEPT ![it.mData + AliveOffset] = 0]
    /\ pc' = "body"
    /\ UNCHANGED <<config, storageBase, storageCount, epoch, locks, view, it,
                   endIt, writes, ub, reads, calls, probed, aside>>

\* it != end is true: auto x = *it
Dereference ==
    /\ pc = "loop"
    /\ ~IterEq(it, endIt)
    /\ Len(produced) <= view.mSize   \* a loop gone astray is cut here
    /\ produced' = Append(produced, it.mData)
    /\ IF DerefAssumptions(kind, it)
       THEN /\ cur' = Deref(it)
            /\ pc' = "body"
            /\ ub' = ub
       ELSE /\ cur' = makeValue(it.mData, NullPtr, it.mOffsets)
            /\ pc' \in {"body", "crashed"}
            /\ ub' = TRUE
    /\ UNCHANGED <<config, storage, locks, view, it, endIt, writes, reads,
                   calls, probed, aside>>

\* The loop body assigns through one of the yielded component references
WriteThrough ==
    /\ pc = "body"
    /\ Len(writes) < MaxWrites
    /\ \E j \in 1 .. Len(cur.refs), v \in WriteVals :
          /\ writes' = Append(writes, [id |-> cur.id, type |-> request[j],
                                       ref |-> cur.refs[j], val |-> v])
          /\ IF Readable(cur.refs[j])
             THEN /\ mem' = [mem EXCEPT ![cur.refs[j]] = v]
                  /\ pc' = pc
                  /\ ub' = ub
             ELSE /\ mem' = mem
                  /\ pc' \in {"body", "crashed"}
                  /\ ub' = TRUE
    /\ UNCHANGED <<config, storageBase, storageCount, epoch, locks, view, it,
                   endIt, cur, produced, reads, calls, probed, aside>>

\* ++it at the end of the loop body
Advance ==
    /\ pc = "body"
    /\ \E o \in Increment(kind, it) :
          /\ probed' = probed \cup o.read
          /\ hinted' = hinted \cup o.hints
          /\ it' = o.it
          /\ ub' = (ub \/ o.ub)
          /\ pc' = IF o.crashed THEN "crashed" ELSE "loop"
    /\ UNCHANGED <<config, storage, locks, view, endIt, cur, produced, writes,
                   reads, calls, flips, bench>>

Iterate ==
    \/ BeginEnd
    \/ Finish
    \/ Dereference
    \/ WriteThrough
    \/ Advance

Next ==
    \/ IllFormed
    \/ Construct
    \/ Iterate

Spec == Init /\ [][Next]_vars

---------------------------------------------------------------------------
(* ThreadSafe == true: the constructor's steps, and a writer that mutates  *)
(* the storage under its write lock                                        *)

\* Most structural mutations the writer makes in one run
MaxMutations == 1

\* The thread-safe runs start from sectors with all components alive or none
InitTS == InitWith(TRUE)

\* getComponentContainer<FirstComponent>(); auto lock = mSectors->readLock()
CtorLock ==
    /\ pc = "start"
    /\ threadSafe
    /\ StaticAsserts(kind, request)
    /\ ~wlock
    /\ view' = SetContainer(DefaultView, request)
    /\ rlock' = rlock + 1
    /\ held' = TRUE
    /\ pc' = "ctor_size"
    /\ UNCHANGED <<config, storage, wlock, it, endIt, cur, produced, writes,
                   ub, reads, calls, probed, aside>>

\* mSize = mSectors->size()
CtorSize ==
    /\ pc = "ctor_size"
    /\ view' = SetSize(view)
    /\ reads' = ReadsOf(view', reads, "size")
    /\ pc' = "ctor_unlock"
    /\ UNCHANGED <<config, storage, locks, it, endIt, cur, produced, writes,
                   ub, calls, probed, aside>>

\* The closing brace of the if constexpr block: ~lock
CtorUnlock_Leaks ==
    /\ pc = "ctor_unlock"
    /\ pc' = "ctor_rest"
    /\ UNCHANGED <<config, storage, locks, view, it, endIt, cur, produced,
                   writes, ub, reads, calls, probed, aside>>

CtorUnlock ==
    /\ pc = "ctor_unlock"
    /\ rlock' = rlock - 1
    /\ held' = FALSE
    /\ pc' = "ctor_rest"
    /\ UNCHANGED <<config, storage, wlock, view, it, endIt, cur, produced,
                   writes, ub, reads, calls, probed, aside>>

\* getLayout(), the stride, the offsets, the mask, and at(0) if mSize > 0
CtorRest ==
    /\ pc = "ctor_rest"
    /\ \E f \in ForeignLayoutData(LayoutOf(view.mSectors)) :
          view' = SetBase(SetLayout(kind, view, request, f))
    /\ reads' = ReadsOf(view', reads, "base")
    /\ pc' = "constructed"
    /\ UNCHANGED <<config, storage, locks, it, endIt, cur, produced, writes,
                   ub, calls, probed, aside>>

\* The writer takes the container's write lock
WriterLock ==
    /\ threadSafe
    /\ ~wlock
    /\ rlock = 0
    /\ epoch < MaxMutations
    /\ wlock' = TRUE
    /\ UNCHANGED <<config, storage, rlock, held, view, it, endIt, cur,
                   produced, writes, pc, ub, reads, calls, probed, aside>>

\* The buffer m moved by delta bytes
Moved(m, delta) == [a \in {x + delta : x \in DOMAIN m} |-> m[a - delta]]

\* The buffer with a sector appended
Grown(arr, base, n, m, alive) ==
    m @@ Buffer(arr, base, n, 1, [i \in {n} |-> alive])

\* The buffer without its last sector
Shrunk(arr, base, n, m) ==
    [a \in {x \in DOMAIN m :
              x < SectorAddr(base, LayoutOf(arr).totalSize, n - 1)} |-> m[a]]

OtherBase(b) == IF b = BufferBase THEN MovedBase ELSE BufferBase

\* The writer appends a sector (in place, or reallocating the buffer), drops
\* the last one or destroys the array, and releases its lock
WriterMutate ==
    /\ wlock
    /\ LET arr == getComponentContainer(request) IN
       \/ /\ storageCount < MaxCount
          /\ \E alive \in {FullMask(arr)}, move \in BOOLEAN :
                LET nb == IF move THEN OtherBase(storageBase) ELSE storageBase
                    m == Grown(arr, storageBase, storageCount, mem, alive)
                IN /\ storageBase' = nb
                   /\ mem' = Moved(m, nb - storageBase)
                   /\ storageCount' = storageCount + 1
       \/ /\ storageCount > 0
          /\ mem' = Shrunk(arr, storageBase, storageCount, mem)
          /\ storageCount' = storageCount - 1
          /\ storageBase' = storageBase
       \/ /\ storageCount > 0
          /\ mem' = <<>>
          /\ storageCount' = 0
          /\ storageBase' = storageBase
    /\ epoch' = epoch + 1
    /\ wlock' = FALSE
    /\ UNCHANGED <<config, rlock, held, view, it, endIt, cur, produced,
                   writes, pc, ub, reads, calls, probed, aside>>

\* A run is followed up to its first undefined operation
NextTS ==
    \/ IllFormed
    \/ CtorLock
    \/ CtorSize
    \/ CtorUnlock
    \/ CtorRest
    \/ (~ub /\ Iterate)
    \/ WriterLock
    \/ WriterMutate

SpecTS == InitTS /\ [][NextTS]_vars

---------------------------------------------------------------------------
(* Liveness bits changing under a live view: a component is added to or    *)
(* removed from an entity in place, with no sector added, removed or moved *)

\* Most liveness bits changed in one run
MaxFlips == 1

\* The calling code sets or clears the liveness bit of one requested type in
\* one sector, between the view's construction and the loop or in a loop body
SetAlive ==
    /\ pc \in {"constructed", "body"}
    /\ Len(flips) < MaxFlips
    /\ LET arr == getComponentContainer(request)
           L == LayoutOf(arr)
       IN \E i \in 0 .. storageCount - 1,
             t \in Hosted(arr) \cap {request[j] : j \in 1 .. Len(request)} :
            LET a == SectorAddr(storageBase, L.totalSize, i) + AliveOffset
                bit == L.data[t].isAliveMask
                new == IF BitAnd(mem[a], bit) = bit
                       THEN mem[a] - bit ELSE mem[a] + bit
            IN /\ mem' = [mem EXCEPT ![a] = new]
               /\ flips' = Append(flips, [index |-> i, old |-> mem[a],
                                          new |-> new, at |-> pc,
                                          reached |-> a \in probed])
    /\ UNCHANGED <<config, storageBase, storageCount, epoch, locks, view, it,
                   endIt, cur, produced, writes, pc, ub, reads, calls, probed,
                   hinted, bench>>

\* The loop without writes through the references, beside such changes
NextLive ==
    \/ IllFormed
    \/ Construct
    \/ BeginEnd
    \/ Finish
    \/ Dereference
    \/ Advance
    \/ SetAlive

SpecLive == Init /\ [][NextLive]_vars

---------------------------------------------------------------------------
(* A second pass over the same view                                        *)

\* for (auto x : view) once more, after the first loop over the same view
\* has ended: the sequence of the first pass is kept aside
BeginAgain ==
    /\ pc = "done"
    /\ bench.name = "none"
    /\ bench' = [name |-> "pass", first |-> produced]
    /\ produced' = <<>>
    /\ pc' = "constructed"
    /\ UNCHANGED <<config, storage, locks, view, it, endIt, cur, writes, ub,
                   reads, calls, probed, hinted, flips>>

NextAgain ==
    \/ IllFormed
    \/ Construct
    \/ BeginEnd
    \/ Finish
    \/ Dereference
    \/ WriteThrough
    \/ Advance
    \/ BeginAgain

SpecAgain == Init /\ [][NextAgain]_vars

---------------------------------------------------------------------------
(* The benchmark routines of benchmark.cpp, namespace realistic            *)

\* Entities a benchmark routine is run with: state.range(0) is at most this
MaxEntities == 20

\* The variables of the views
viewVars ==
    <<request, kind, threadSafe, mem, storageBase, storageCount, view, it,
      endIt, cur, produced, writes, pc, ub, rlock, wlock, held, epoch, reads,
      calls, probed, hinted, flips>>

\* The benchmark routines construct no flat view
NoView ==
    /\ request = <<"X">>
    /\ kind = "FlatView"
    /\ threadSafe = FALSE
    /\ storageBase = BufferBase
    /\ storageCount = 0
    /\ mem = Buffer(getComponentContainer(<<"X">>), BufferBase, 0, 0, <<>>)
    /\ epoch = 0
    /\ view = DefaultView
    /\ it = DefaultIterator
    /\ endIt = DefaultIterator
    /\ cur = makeValue(NullPtr, 0, <<>>)
    /\ produced = <<>>
    /\ writes = <<>>
    /\ pc = "start"
    /\ ub = FALSE
    /\ rlock = 0
    /\ wlock = FALSE
    /\ held = FALSE
    /\ reads = NoReads
    /\ calls = NoCalls
    /\ probed = {}
    /\ hinted = {}
    /\ flips = <<>>

\* ecss_r::mixed_archetypes: the components entity i is given
ecss_r_archetype(i) ==
    LET type == i % 10
    IN {"Transform"}
         \cup (IF type >= 4 THEN {"Sprite"} ELSE {})
         \cup (IF type >= 7 \/ type < 2 THEN {"RigidBody"} ELSE {})

\* entt_r::mixed_archetypes: the components entity i is given
entt_r_archetype(i) ==
    LET type == i % 10
    IN {"Transform"}
         \cup (IF type >= 4 THEN {"Sprite"} ELSE {})
         \cup (IF type >= 7 \/ type < 2 THEN {"RigidBody"} ELSE {})

\* flecs_r::mixed_archetypes: the components entity i is given
flecs_r_archetype(i) ==
    LET type == i % 10
    IN {"Transform"}
         \cup (IF type >= 4 THEN {"Sprite"} ELSE {})
         \cup (IF type >= 7 \/ type < 2 THEN {"RigidBody"} ELSE {})

\* mixed_archetypes starts in the three libraries: n = state.range(0), no
\* entity yet
InitArchetypes ==
    /\ NoView
    /\ \E n \in 0 .. MaxEntities :
          bench = [name |-> "mixed_archetypes", n |-> n,
                   ecss |-> <<>>, entt |-> <<>>, flecs |-> <<>>]

\* One round of the population loop of ecss_r::mixed_archetypes
ecss_r_mixed_archetypes ==
    /\ bench.name = "mixed_archetypes"
    /\ Len(bench.ecss) < bench.n
    /\ bench' = [bench EXCEPT
                   !.ecss = Append(@, ecss_r_archetype(Len(bench.ecss)))]
    /\ UNCHANGED viewVars

\* One round of the population loop of entt_r::mixed_archetypes
entt_r_mixed_archetypes ==
    /\ bench.name = "mixed_archetypes"
    /\ Len(bench.entt) < bench.n
    /\ bench' = [bench EXCEPT
                   !.entt = Append(@, entt_r_archetype(Len(bench.entt)))]
    /\ UNCHANGED viewVars

\* One round of the population loop of flecs_r::mixed_archetypes
flecs_r_mixed_archetypes ==
    /\ bench.name = "mixed_archetypes"
    /\ Len(bench.flecs) < bench.n
    /\ bench' = [bench EXCEPT
                   !.flecs = Append(@, flecs_r_archetype(Len(bench.flecs)))]
    /\ UNCHANGED viewVars

NextArchetypes ==
    \/ ecss_r_mixed_archetypes
    \/ entt_r_mixed_archetypes
    \/ flecs_r_mixed_archetypes

SpecArchetypes == InitArchetypes /\ [][NextArchetypes]_vars

---------------------------------------------------------------------------
(* ai_state_machine                                                        *)

\* Frames (rounds of for (auto _ : state)) a routine is run for
MaxFrames == 3

\* const float dt = 1.f / 60.f: the timers are counted in steps of dt
TicksPerSecond == 60

\* AIState::aggroRange and AIState::attackRange of every entity
AggroRange == 100
AttackRange == 20

\* The squared distances to the player tried: inside the attack range,
\* inside the aggro range, beyond it, beyond 1.5 times its square
DistSqs == {100, 5000, 12000, 20000}

\* The timers an entity starts a frame with, in steps of dt
StartTimers == 0 .. 2

\* ecss_r::ai_state_machine: the lambda given to view.each, for one entity
ecss_r_ai(e) ==
    LET timer == e.timer - 1
        ai == [e EXCEPT !.timer = timer]
    IN CASE e.state = 0 ->
              IF e.distSq < AggroRange * AggroRange
              THEN [ai EXCEPT !.state = 2]
              ELSE IF timer <= 0
              THEN [ai EXCEPT !.state = 1, !.timer = 3 * TicksPerSecond]
              ELSE ai
         [] e.state = 1 ->
              IF e.distSq < AggroRange * AggroRange
              THEN [ai EXCEPT !.state = 2]
              ELSE IF timer <= 0
              THEN [ai EXCEPT !.state = 0, !.timer = 2 * TicksPerSecond]
              ELSE ai
         [] e.state = 2 ->
              IF e.distSq < AttackRange * AttackRange
              THEN [ai EXCEPT !.state = 3, !.timer = 1 * TicksPerSecond]
              ELSE IF 2 * e.distSq > 3 * (AggroRange * AggroRange)
              THEN [ai EXCEPT !.state = 0]
              ELSE ai
         [] e.state = 3 ->
              IF timer <= 0 THEN [ai EXCEPT !.state = 2] ELSE ai
         [] OTHER -> ai

\* entt_r::ai_state_machine: the lambda given to view.each
entt_r_ai(e) ==
    LET timer == e.timer - 1
        ai == [e EXCEPT !.timer = timer]
    IN CASE e.state = 0 ->
              IF e.distSq < AggroRange * AggroRange
              THEN [ai EXCEPT !.state = 2]
              ELSE IF timer <= 0
              THEN [ai EXCEPT !.state = 1, !.timer = 3 * TicksPerSecond]
              ELSE ai
         [] e.state = 1 ->
              IF e.distSq < AggroRange * AggroRange
              THEN [ai EXCEPT !.state = 2]
              ELSE IF timer <= 0
              THEN [ai EXCEPT !.state = 0, !.timer = 2 * TicksPerSecond]
              ELSE ai
         [] e.state = 2 ->
              IF e.distSq < AttackRange * AttackRange
              THEN [ai EXCEPT !.state = 3, !.timer = 1 * TicksPerSecond]
              ELSE IF 2 * e.distSq > 3 * (AggroRange * AggroRange)
              THEN [ai EXCEPT !.state = 0]
              ELSE ai
         [] e.state = 3 ->
              IF timer <= 0 THEN [ai EXCEPT !.state = 2] ELSE ai
         [] OTHER -> ai

\* The lambda of flecs_r::ai_state_machine without the timer of the attack
flecs_r_ai_NoAttackTimer(e) ==
    LET timer == e.timer - 1
        ai == [e EXCEPT !.timer = timer]
    IN CASE e.state = 0 ->
              IF e.distSq < AggroRange * AggroRange
              THEN [ai EXCEPT !.state = 2]
              ELSE IF timer <= 0
              THEN [ai EXCEPT !.state = 1, !.timer = 3 * TicksPerSecond]
              ELSE ai
         [] e.state = 1 ->
              IF e.distSq < AggroRange * AggroRange
              THEN [ai EXCEPT !.state = 2]
              ELSE IF timer <= 0
              THEN [ai EXCEPT !.state = 0, !.timer = 2 * TicksPerSecond]
              ELSE ai
         [] e.state = 2 ->
              IF e.distSq < AttackRange * AttackRange
              THEN [ai EXCEPT !.state = 3]
              ELSE IF 2 * e.distSq > 3 * (AggroRange * AggroRange)
              THEN [ai EXCEPT !.state = 0]
              ELSE ai
         [] e.state = 3 ->
              IF timer <= 0 THEN [ai EXCEPT !.state = 2] ELSE ai
         [] OTHER -> ai

\* flecs_r::ai_state_machine: the lambda given to q.each
flecs_r_ai(e) ==
    LET timer == e.timer - 1
        ai == [e EXCEPT !.timer = timer]
    IN CASE e.state = 0 ->
              IF e.distSq < AggroRange * AggroRange
              THEN [ai EXCEPT !.state = 2]
              ELSE IF timer <= 0
              THEN [ai EXCEPT !.state = 1, !.timer = 3 * TicksPerSecond]
              ELSE ai
         [] e.state = 1 ->
              IF e.distSq < AggroRange * AggroRange
              THEN [ai EXCEPT !.state = 2]
              ELSE IF timer <= 0
              THEN [ai EXCEPT !.state = 0, !.timer = 2 * TicksPerSecond]
              ELSE ai
         [] e.state = 2 ->
              IF e.distSq < AttackRange * AttackRange
              THEN [ai EXCEPT !.state = 3, !.timer = 1 * TicksPerSecond]
              ELSE IF 2 * e.distSq > 3 * (AggroRange * AggroRange)
              THEN [ai EXCEPT !.state = 0]
              ELSE ai
         [] e.state = 3 ->
              IF timer <= 0 THEN [ai EXCEPT !.state = 2] ELSE ai
         [] OTHER -> ai

\* The same entity in the three libraries: AIState{i % 4, ...}, a timer and
\* a distance to the player; no frame run yet
InitAI ==
    /\ NoView
    /\ \E s \in 0 .. 3, t \in StartTimers, d \in DistSqs :
          LET e == [ai |-> [state |-> s, timer |-> t, distSq |-> d],
                    frames |-> 0]
          IN bench = [name |-> "ai_state_machine",
                      ecss |-> e, entt |-> e, flecs |-> e]

\* One frame of ecss_r::ai_state_machine
ecss_r_ai_state_machine ==
    /\ bench.name = "ai_state_machine"
    /\ bench.ecss.frames < MaxFrames
    /\ bench' = [bench EXCEPT !.ecss = [ai |-> ecss_r_ai(@.ai),
                                        frames |-> @.frames + 1]]
    /\ UNCHANGED viewVars

\* One frame of entt_r::ai_state_machine
entt_r_ai_state_machine ==
    /\ bench.name = "ai_state_machine"
    /\ bench.entt.frames < MaxFrames
    /\ bench' = [bench EXCEPT !.entt = [ai |-> entt_r_ai(@.ai),
                                        frames |-> @.frames + 1]]
    /\ UNCHANGED viewVars

\* One frame of flecs_r::ai_state_machine
flecs_r_ai_state_machine ==
    /\ bench.name = "ai_state_machine"
    /\ bench.flecs.frames < MaxFrames
    /\ bench' = [bench EXCEPT !.flecs = [ai |-> flecs_r_ai(@.ai),
                                         frames |-> @.frames + 1]]
    /\ UNCHANGED viewVars

NextAI ==
    \/ ecss_r_ai_state_machine
    \/ entt_r_ai_state_machine
    \/ flecs_r_ai_state_machine

SpecAI == InitAI /\ [][NextAI]_vars

---------------------------------------------------------------------------
(* entity_churn                                                            *)

\* The initial population: n entities, tracked in creation order; an entity
\* is named by its creation number
Populated(n) ==
    [entities |-> [j \in 1 .. n |-> j - 1], alive |-> 0 .. n - 1,
     created |-> n, frame |-> 0, oob |-> FALSE, destroyed |-> 0,
     spawned |-> 0]

\* The frame of ecss_r::entity_churn that leaves the destroyed entities in
\* the tracked list
ecss_r_churn_NoErase(v, n) ==
    LET churnRate == n \div 10
        read == IF v.entities = <<>> THEN {} ELSE 0 .. churnRate - 1
        toDestroy == {v.entities[i + 1] : i \in read \cap (0 .. Len(v.entities) - 1)}
        kept == v.entities
        fresh == [j \in 1 .. churnRate |-> v.created + j - 1]
    IN [entities |-> kept \o fresh,
        alive |-> (v.alive \ toDestroy) \cup {fresh[j] : j \in 1 .. churnRate},
        created |-> v.created + churnRate,
        frame |-> v.frame + 1,
        oob |-> v.oob \/ \E i \in read : i >= Len(v.entities),
        destroyed |-> v.destroyed + Cardinality(toDestroy),
        spawned |-> v.spawned + churnRate]

\* One frame of ecss_r::entity_churn: collect the first churnRate tracked
\* entities, destroy them, erase toDestroy.size() from the front, spawn
\* churnRate
ecss_r_churn(v, n) ==
    LET churnRate == n \div 10
        read == IF v.entities = <<>> THEN {} ELSE 0 .. churnRate - 1
        toDestroy == {v.entities[i + 1] : i \in read \cap (0 .. Len(v.entities) - 1)}
        kept == IF toDestroy = {} THEN v.entities
                ELSE SubSeq(v.entities, Cardinality(read) + 1, Len(v.entities))
        fresh == [j \in 1 .. churnRate |-> v.created + j - 1]
    IN [entities |-> kept \o fresh,
        alive |-> (v.alive \ toDestroy) \cup {fresh[j] : j \in 1 .. churnRate},
        created |-> v.created + churnRate,
        frame |-> v.frame + 1,
        oob |-> v.oob \/ \E i \in read : i >= Len(v.entities),
        destroyed |-> v.destroyed + Cardinality(toDestroy),
        spawned |-> v.spawned + churnRate]

\* std::min(churnRate, (int)entities.size())
MinOf(a, b) == IF a < b THEN a ELSE b

\* One frame of entt_r::entity_churn: destroy the first churnRate tracked
\* entities, erase min(churnRate, size) from the front, spawn churnRate
entt_r_churn(v, n) ==
    LET churnRate == n \div 10
        read == IF v.entities = <<>> THEN {} ELSE 0 .. churnRate - 1
        destroy == {v.entities[i + 1] : i \in read \cap (0 .. Len(v.entities) - 1)}
        kept == SubSeq(v.entities, MinOf(churnRate, Len(v.entities)) + 1,
                       Len(v.entities))
        fresh == [j \in 1 .. churnRate |-> v.created + j - 1]
    IN [entities |-> kept \o fresh,
        alive |-> (v.alive \ destroy) \cup {fresh[j] : j \in 1 .. churnRate},
        created |-> v.created + churnRate,
        frame |-> v.frame + 1,
        oob |-> v.oob \/ \E i \in read : i >= Len(v.entities),
        destroyed |-> v.destroyed + Cardinality(destroy),
        spawned |-> v.spawned + churnRate]

\* One frame of flecs_r::entity_churn: destruct the first churnRate tracked
\* entities between defer_begin and defer_end, erase min(churnRate, size),
\* spawn churnRate
flecs_r_churn(v, n) ==
    LET churnRate == n \div 10
        read == IF v.entities = <<>> THEN {} ELSE 0 .. churnRate - 1
        destruct == {v.entities[i + 1] : i \in read \cap (0 .. Len(v.entities) - 1)}
        kept == SubSeq(v.entities, MinOf(churnRate, Len(v.entities)) + 1,
                       Len(v.entities))
        fresh == [j \in 1 .. churnRate |-> v.created + j - 1]
    IN [entities |-> kept \o fresh,
        alive |-> (v.alive \ destruct) \cup {fresh[j] : j \in 1 .. churnRate},
        created |-> v.created + churnRate,
        frame |-> v.frame + 1,
        oob |-> v.oob \/ \E i \in read : i >= Len(v.entities),
        destroyed |-> v.destroyed + Cardinality(destruct),
        spawned |-> v.spawned + churnRate]

\* entity_churn in the three libraries after the initial population
InitChurn ==
    /\ NoView
    /\ \E n \in 0 .. MaxEntities :
          bench = [name |-> "entity_churn", n |-> n, ecss |-> Populated(n),
                   entt |-> Populated(n), flecs |-> Populated(n)]

\* One frame of ecss_r::entity_churn
ecss_r_entity_churn ==
    /\ bench.name = "entity_churn"
    /\ bench.ecss.frame < MaxFrames
    /\ bench' = [bench EXCEPT !.ecss = ecss_r_churn(@, bench.n)]
    /\ UNCHANGED viewVars

\* One frame of entt_r::entity_churn
entt_r_entity_churn ==
    /\ bench.name = "entity_churn"
    /\ bench.entt.frame < MaxFrames
    /\ bench' = [bench EXCEPT !.entt = entt_r_churn(@, bench.n)]
    /\ UNCHANGED viewVars

\* One frame of flecs_r::entity_churn
flecs_r_entity_churn ==
    /\ bench.name = "entity_churn"
    /\ bench.flecs.frame < MaxFrames
    /\ bench' = [bench EXCEPT !.flecs = flecs_r_churn(@, bench.n)]
    /\ UNCHANGED viewVars

NextChurn ==
    \/ ecss_r_entity_churn
    \/ entt_r_entity_churn
    \/ flecs_r_entity_churn

SpecChurn == InitChurn /\ [][NextChurn]_vars

---------------------------------------------------------------------------
(* Notions the properties are stated with *)

\* Every requested type is hosted by the array of the first one
AllHosted ==
    \A j \in 1 .. Len(request) :
        ArrayOf(request[j]) = getComponentContainer(request)

TheLayout == LayoutOf(getComponentContainer(request))

\* Address of sector i (0-based) of the storage's array
SectorAt(i) == SectorAddr(storageBase, TheLayout.totalSize, i)

\* The bitwise OR of the liveness bits of the requested (hosted) types
RequestMask ==
    OrAll({TheLayout.data[t].isAliveMask :
             t \in {request[j] : j \in 1 .. Len(request)} \cap DOMAIN TheLayout.data})

\* (liveness[i] & combinedMask) == combinedMask
Visible(i) == BitAnd(mem[SectorAt(i) + AliveOffset], RequestMask) = RequestMask

VisibleIndexes == {i \in 0 .. storageCount - 1 : Visible(i)}

\* The positions of the visible sectors in physical order
VisibleSeq ==
    LET all == [n \in 1 .. storageCount |-> n - 1]
        vis == SelectSeq(all, LAMBDA i : Visible(i))
    IN [n \in 1 .. Len(vis) |-> SectorAt(vis[n])]

Range(f) == {f[x] : x \in DOMAIN f}

\* The calling code holds a constructed view and its iterators
Iterating == pc \in {"loop", "body", "done"}

---------------------------------------------------------------------------
(* C1..C10 *)

\* C1: for any array, any non-empty request hosted by it and any liveness
\* pattern, a completed iteration of a view has produced sector i if and only
\* if (liveness[i] & combinedMask) == combinedMask.
\* Violated: over an array of 0 sectors begin() and end() pass the null base
\* pointer to an Iterator constructor that assumes it non-null (C20).
C1_ProducedIffVisible ==
    (pc = "done" /\ AllHosted) =>
        Range(produced) = {SectorAt(i) : i \in VisibleIndexes}

\* C2: a completed iteration has produced the visible sectors in strictly
\* increasing physical order, each exactly once.
\* Violated on the array of 0 sectors, as C1.
C2_ProducedInArrayOrder ==
    (pc = "done" /\ AllHosted) => produced = VisibleSeq

\* C3: if the array has 0 sectors or none satisfies the combined mask,
\* begin() == end() right after the two iterators are constructed, and the
\* iteration has length 0.
\* Violated on the array of 0 sectors, as C1.
C3_EmptyIterationBeginIsEnd ==
    (AllHosted /\ VisibleIndexes = {}) =>
        /\ pc # "crashed"
        /\ pc = "loop" => IterEq(it, endIt)
        /\ produced = <<>>

\* C4: in every state the loop's iterator reaches, position == base +
\* stride * (count - remaining), and it == end() exactly when remaining is 0.
\* Violated on the array of 0 sectors, as C1.
C4_PositionTracksRemaining ==
    Iterating =>
        /\ it.mData = view.mBasePtr + view.mStride * (view.mSize - it.mRemaining)
        /\ IterEq(it, endIt) <=> it.mRemaining = 0

\* C1, C2, C4 where no assumption of the iterators is violated: they hold
C1to4_WhenDefined ==
    ~ub => /\ C1_ProducedIffVisible
           /\ C2_ProducedInArrayOrder
           /\ C3_EmptyIterationBeginIsEnd
           /\ C4_PositionTracksRemaining

\* C5: dereferencing a FlatComponentView iterator stopped at the visible
\* sector i yields (EntityId of sector i, r_1, ..., r_k) with r_j the address
\* base + i * stride + Layout.offset(T_j), T_j the j-th requested type.
C5_TupleAliasesLayoutOffsets ==
    (pc = "body" /\ kind = "FlatComponentView" /\ AllHosted) =>
        \A i \in VisibleIndexes :
            cur.pos = SectorAt(i) =>
                /\ cur.id = IdOf(i)
                /\ Len(cur.refs) = Len(request)
                /\ \A j \in 1 .. Len(request) :
                      cur.refs[j] = storageBase + i * TheLayout.totalSize
                                      + TheLayout.data[request[j]].offset

\* C5 witness: the tuple of the second sector, two components requested
C5_Witness ==
    /\ pc = "body" /\ kind = "FlatComponentView" /\ AllHosted
    /\ Len(request) = 2
    /\ 1 \in VisibleIndexes
    /\ cur.pos = SectorAt(1)

\* The last write made through a reference yielded for (entity, type)
LastWrite(k) ==
    \A n \in k + 1 .. Len(writes) :
        ~(writes[n].id = writes[k].id /\ writes[n].type = writes[k].type)

\* C6: a write made through a reference yielded by FlatComponentView is in
\* the sector's payload: reading the same entity's component through the
\* Layout offset, during or after the iteration, returns the written value.
C6_WriteThroughReachesPayload ==
    (Iterating /\ kind = "FlatComponentView" /\ AllHosted) =>
        \A k \in 1 .. Len(writes) : \A i \in 0 .. storageCount - 1 :
            (writes[k].id = IdOf(i) /\ LastWrite(k)) =>
                mem[SectorAt(i) + TheLayout.data[writes[k].type].offset]
                    = writes[k].val

\* C6 witness: the iteration is over and wrote the second requested
\* component of the second sector
C6_Witness ==
    /\ pc = "done" /\ kind = "FlatComponentView" /\ AllHosted
    /\ Len(request) = 2
    /\ \E k \in 1 .. Len(writes) :
          writes[k].id = IdOf(1) /\ writes[k].type = request[2]

\* C7: constructing a view whose requested types live in two different
\* arrays fails at construction: no mask or offset is taken from the first
\* type's Layout for the other type, and no iterator is produced.
\* Violated: the constructors check nothing and return a view.
C7_UngroupedRequestRejected ==
    ~AllHosted => (pc = "start" /\ view = DefaultView)

\* C8: in the thread-safe configuration the view constructor reads both the
\* element count and the base pointer of the first sector while it holds the
\* storage's read lock.
\* Violated: the lock object lives in the if constexpr block only, and at(0)
\* is called after that block.
C8_CountAndBaseReadUnderLock ==
    (threadSafe /\ pc = "constructed" /\ view.mSize > 0) =>
        (reads.size.locked /\ reads.base.locked)

\* The calling code is past the view's constructor
Constructed == pc \in {"constructed", "loop", "body", "done", "crashed"}

\* C9: in the thread-safe configuration the read lock taken by the
\* constructor is released before the constructor returns: a live view and a
\* running iteration hold no lock, and the writer can take its lock.
C9_NoLockHeldAfterConstruction ==
    (threadSafe /\ Constructed) =>
        /\ rlock = 0
        /\ ~held
        /\ (~wlock /\ epoch < MaxMutations) => ENABLED WriterLock

\* C9 witness: the writer holds its lock in the middle of a loop body
C9_Witness == threadSafe /\ pc = "body" /\ wlock

\* C10: after construction begin(), end() and the iteration use the count and
\* base pointer captured by the constructor, whatever the storage has become.
C10_IterationUsesSnapshot ==
    (threadSafe /\ pc \in {"loop", "body", "done", "crashed"}) =>
        /\ view.mSize = reads.size.value
        /\ view.mBasePtr = reads.base.value
        /\ calls.begin = Iter(reads.base.value, view.mStride, reads.size.value,
                              view.mAliveMask, view.mOffsets)
        /\ calls.end = Iter(reads.base.value + view.mStride * reads.size.value,
                            view.mStride, 0, view.mAliveMask, view.mOffsets)

\* C10 witness: the storage grew into another buffer after the view was
\* constructed, and the loop runs on the view's count and base pointer
C10_Witness ==
    /\ threadSafe /\ pc = "body" /\ ~ub
    /\ epoch > reads.size.epoch /\ epoch > reads.base.epoch
    /\ view.mSize > 0
    /\ view.mSize # storageCount
    /\ view.mBasePtr # storageBase

---------------------------------------------------------------------------
(* C11..C20 *)

\* The sectors of the storage as the array holds them: position, EntityId
\* and liveness field, in index order
Headers ==
    [i \in 0 .. storageCount - 1 |->
        [pos |-> SectorAt(i), id |-> mem[SectorAt(i)],
         alive |-> mem[SectorAt(i) + AliveOffset]]]

\* C11: view construction, begin(), end(), ++, comparison and dereference
\* (every step that is neither a write of the calling code through a yielded
\* reference nor a mutation by the storage's writer) leave the storage's
\* element count, the position and order of its sectors, every EntityId and
\* every liveness field as they were.
C11_ViewOperationsKeepStorage ==
    [][(writes' = writes /\ epoch' = epoch) =>
          /\ storageCount' = storageCount
          /\ storageBase' = storageBase
          /\ Headers' = Headers]_vars

\* C11 witness: an iteration over three sectors has run to its end, produced
\* at least two of them and skipped at least one
C11_Witness ==
    /\ pc = "done" /\ ~ub
    /\ storageCount = 3
    /\ Len(produced) = 2

\* C12: a view cannot be constructed with zero requested component types:
\* for FlatView and for FlatComponentView the request is rejected before any
\* constructor runs, no view object is filled in and no iterator is made.
C12_EmptyRequestRejected ==
    request = <<>> =>
        /\ pc \in {"start", "rejected"}
        /\ view = DefaultView
        /\ it = DefaultIterator /\ endIt = DefaultIterator
        /\ calls = NoCalls

\* C12 witness: a FlatComponentView with no component type, over an array
\* that holds sectors, has been rejected
C12_Witness ==
    /\ request = <<>> /\ kind = "FlatComponentView"
    /\ storageCount > 0
    /\ pc = "rejected"

\* begin() and end() have been called
Called == pc \in {"loop", "body", "done", "crashed"}

\* C13: constructing end() and comparing an iterator with it reads no
\* liveness field and no other sector memory; over an array of 0 sectors
\* constructing begin() reads none either and begin() == end() is evaluated.
\* Violated: over an array of 0 sectors begin() and end() are undefined (C20).
C13_EndAndEmptyBeginReadNothing ==
    Called =>
        /\ calls.endRead = {}
        /\ view.mSize = 0 => (calls.beginRead = {} /\ pc # "crashed")

\* C14: the combined liveness mask of a view is the bitwise OR of the Layout
\* liveness bits of exactly the requested component types; it is set by the
\* constructor, and begin() and end() pass that same mask to every iterator.
C14_MaskIsOrOfRequested ==
    (Constructed /\ AllHosted) =>
        /\ view.mAliveMask = RequestMask
        /\ Called =>
              /\ calls.begin.mAliveMask = view.mAliveMask
              /\ calls.end.mAliveMask = view.mAliveMask
              /\ it.mAliveMask = view.mAliveMask
              /\ endIt.mAliveMask = view.mAliveMask

\* C14 witness: a loop body runs under the mask of two requested types, each
\* with a liveness bit of its own
C14_Witness ==
    /\ pc = "body" /\ AllHosted
    /\ Len(request) = 2
    /\ view.mAliveMask = FullMask("A")
    /\ view.mAliveMask # TheLayout.data[request[1]].isAliveMask
    /\ view.mAliveMask # TheLayout.data[request[2]].isAliveMask

\* The sector i carries the liveness bit of the type t
HasAlive(i, t) ==
    BitAnd(mem[SectorAt(i) + AliveOffset], TheLayout.data[t].isAliveMask)
        = TheLayout.data[t].isAliveMask

\* The positions of the sectors in which both X and Y are alive, in index
\* order: what either request order has to visit
BothAliveSeq ==
    LET all == [n \in 1 .. storageCount |-> n - 1]
        both == SelectSeq(all, LAMBDA i : HasAlive(i, "X") /\ HasAlive(i, "Y"))
    IN [n \in 1 .. Len(both) |-> SectorAt(both[n])]

\* C15: for X and Y grouped in one array, FlatComponentView<X, Y> and
\* FlatComponentView<Y, X> visit the same sectors in the same order, one
\* tuple per sector that has both alive; the request order only decides the
\* order of the references in the tuple.
\* Violated: over an array of 0 sectors both iterations are undefined (C20).
C15_RequestOrderOnlyOrdersTuple ==
    (kind = "FlatComponentView" /\ request \in {<<"X", "Y">>, <<"Y", "X">>}) =>
        /\ pc = "done" => produced = BothAliveSeq
        /\ pc = "body" =>
              /\ cur.pos \in Range(BothAliveSeq)
              /\ cur.refs = [j \in 1 .. 2 |->
                                cur.pos + TheLayout.data[request[j]].offset]
        /\ pc # "crashed"

\* The sectors of the extent the view captured: base + stride * i, i < count
SnapshotSectors ==
    {SectorAddr(view.mBasePtr, view.mStride, i) : i \in 0 .. view.mSize - 1}

\* C16: dereferencing a FlatView iterator that is not equal to end() yields
\* the record at the iterator's position, and that record is the sector of
\* index count - remaining, with its id and its liveness field; FlatView
\* holds no component offset and applies none.
\* Violated: over an array of 0 sectors begin() is undefined (C20) and the
\* loop may dereference an iterator that is at no sector.
C16_FlatViewYieldsSectorRecord ==
    (kind = "FlatView" /\ pc = "body") =>
        LET idx == view.mSize - it.mRemaining IN
            /\ idx \in 0 .. storageCount - 1
            /\ cur.pos = it.mData
            /\ cur.pos = SectorAt(idx)
            /\ cur.id = Headers[idx].id
            /\ mem[cur.pos + AliveOffset] = Headers[idx].alive
            /\ cur.refs = <<>>
            /\ view.mOffsets = <<>> /\ it.mOffsets = <<>>

\* C17: whenever the loop's iterator is not equal to end(), after begin() and
\* after every ++, the sector at its position has every bit of the combined
\* mask set: the liveness assumption of operator* holds at every dereference
\* (no step of these runs changes a liveness field, C11).
\* Violated: over an array of 0 sectors begin() is undefined (C20) and may
\* return an iterator that differs from end() and is at no sector.
C17_NonEndIteratorIsAtLiveSector ==
    ((pc = "loop" /\ ~IterEq(it, endIt)) \/ pc = "body") =>
        /\ it.mAliveMask = view.mAliveMask
        /\ Readable(it.mData + AliveOffset)
        /\ IsAlive(it)

\* C18: with no structural mutation of the storage after the view was
\* constructed, every liveness read of skipDead and every dereference is at a
\* sector of index 0 .. count - 1, never at or beyond base + stride * count.
\* Violated: over an array of 0 sectors begin() and end() are undefined (C20).
C18_ReadsStayInsideExtent ==
    (Called /\ epoch = reads.size.epoch) =>
        /\ probed \subseteq {a + AliveOffset : a \in SnapshotSectors}
        /\ Range(produced) \subseteq SnapshotSectors
        /\ pc # "crashed"

\* C13, C15, C16, C17 and C18 in the single-threaded runs where no
\* assumption of the iterators is violated: they hold
C13to18_WhenDefined ==
    ~ub => /\ C13_EndAndEmptyBeginReadNothing
           /\ C15_RequestOrderOnlyOrdersTuple
           /\ C16_FlatViewYieldsSectorRecord
           /\ C17_NonEndIteratorIsAtLiveSector
           /\ C18_ReadsStayInsideExtent

\* C19: in the thread-safe configuration, with a writer mutating the storage,
\* the (count, base pointer) pair a constructor captured is the storage's
\* element count and first-sector address of one single moment of the
\* construction: of the moment size() was read or of the moment at(0) was.
\* Violated: at(0) is read after the read lock is released (C8), and the
\* writer may mutate the storage in between.
C19_SnapshotIsOfOneMoment ==
    (threadSafe /\ Constructed /\ view.mSize > 0) =>
        \/ (view.mSize = reads.size.value /\ view.mBasePtr = reads.size.base)
        \/ (view.mSize = reads.base.count /\ view.mBasePtr = reads.base.value)

\* C20: every iterator begin() or end() constructs is given a non-null data
\* pointer, as the Iterator constructors assume, also for a view over an
\* array of 0 elements.
\* Violated: for an array of 0 elements the base pointer is never assigned
\* and begin() and end() pass nullptr.
C20_IteratorDataNeverNull ==
    Called => (calls.begin.mData # NullPtr /\ calls.end.mData # NullPtr)

---------------------------------------------------------------------------
(* C21..C30 *)

\* The number of ++ the loop has applied so far: one per loop body left
Advances == IF pc = "body" THEN Len(produced) - 1 ELSE Len(produced)

\* begin()'s skipDead inspected at most count sectors and end()'s none, no
\* more than count ++ were applied, and after count of them it == end()
C21_State ==
    Called =>
        /\ Cardinality(calls.beginRead) <= view.mSize
        /\ Cardinality(calls.endRead) <= 0
        /\ Advances <= view.mSize
        /\ (pc = "loop" /\ Advances >= view.mSize) => IterEq(it, endIt)

\* A ++ leaves remaining strictly smaller, and its skipDead inspects at most
\* as many sectors as remained when it was entered
C21_Step ==
    (pc = "body" /\ pc' \in {"loop", "crashed"} /\ writes' = writes) =>
        /\ it'.mRemaining < it.mRemaining
        /\ Cardinality(probed' \ probed) <= it.mRemaining - 1

\* C21: from begin(), applying ++ while the iterator is not equal to end(),
\* the iterator is equal to end() after at most count applications of ++;
\* every skipDead call inspects at most `remaining` sectors, and remaining
\* strictly decreases with every ++.
\* Violated: over an array of 0 sectors begin() and end() are undefined (C20)
\* and the loop may run on an iterator that never meets end().
C21_EndWithinCountSteps == []C21_State /\ [][C21_Step]_vars

\* C22: in a loop that applies ++ only while the iterator differs from end(),
\* remaining is above 0 at every operator* and every ++, so the unsigned
\* counter never wraps below zero and FlatView's assumptions hold.
\* Violated: over an array of 0 sectors begin() is undefined (C20) and may
\* return an iterator that differs from end() with nothing remaining.
C22_RemainingNeverWraps ==
    Called =>
        /\ it.mRemaining <= view.mSize
        /\ ((pc = "loop" /\ ~IterEq(it, endIt)) \/ pc = "body") =>
              /\ it.mRemaining > 0
              /\ IncAssumptions(kind, it)
              /\ kind = "FlatView" => DerefAssumptions(kind, it)

\* C21 and C22 in the single-threaded runs where no assumption of the
\* iterators is violated: they hold
C21to22_WhenDefined ==
    /\ [](~ub => (C21_State /\ C22_RemainingNeverWraps))
    /\ [][~ub' => C21_Step]_vars

\* The changes made to the liveness field of sector i before (unreached) or
\* after skipDead inspected it, in the order they were made
FlipsOf(i, reached) ==
    SelectSeq(flips, LAMBDA f : f.index = i /\ f.reached = reached)

\* The liveness field of sector i as it was at the moment skipDead inspected
\* it: the outcome of the last change made before, else the value the first
\* change made after found, else the field as it is
InspectedValue(i) ==
    IF FlipsOf(i, FALSE) # <<>>
    THEN FlipsOf(i, FALSE)[Len(FlipsOf(i, FALSE))].new
    ELSE IF FlipsOf(i, TRUE) # <<>>
    THEN FlipsOf(i, TRUE)[1].old
    ELSE mem[SectorAt(i) + AliveOffset]

\* The positions of the sectors that satisfied the view's mask when they
\* were inspected, in index order
VisibleWhenInspected ==
    LET all == [n \in 1 .. storageCount |-> n - 1]
        vis == SelectSeq(all, LAMBDA i :
                  BitAnd(InspectedValue(i), view.mAliveMask) = view.mAliveMask)
    IN [n \in 1 .. Len(vis) |-> SectorAt(vis[n])]

\* C23: visibility is evaluated when the cursor reaches a sector: with no
\* structural mutation, a liveness bit of a not-yet-reached sector cleared or
\* set after the view or the iterator was created makes the iteration skip
\* or produce that sector by the bit's value at the moment skipDead inspects
\* it (and a change made after the inspection leaves the iteration as it is).
C23_VisibilityAtInspection ==
    (pc = "done" /\ flips # <<>>) => produced = VisibleWhenInspected

\* C23 witness: a sector that was visible when the loop was in its body lost
\* a requested bit before the cursor reached it, and the finished iteration
\* has not produced it
C23_Witness ==
    /\ pc = "done" /\ flips # <<>>
    /\ flips[1].at = "body" /\ ~flips[1].reached
    /\ BitAnd(flips[1].old, view.mAliveMask) = view.mAliveMask
    /\ BitAnd(flips[1].new, view.mAliveMask) # view.mAliveMask
    /\ SectorAt(flips[1].index) \notin Range(produced)
    /\ produced # <<>>

\* C23 witness of the other direction: a dead sector was given its missing
\* bit before the cursor reached it and has been produced
C23_WitnessSet ==
    /\ pc = "done" /\ flips # <<>>
    /\ ~flips[1].reached
    /\ BitAnd(flips[1].old, view.mAliveMask) # view.mAliveMask
    /\ SectorAt(flips[1].index) \in Range(produced)

\* The two outcome sets are one defined outcome each, at the same cursor
\* state (position, remaining)
SameCursor(S, T) ==
    \E a \in S, b \in T :
        /\ S = {a} /\ T = {b}
        /\ ~a.ub /\ ~b.ub /\ ~a.crashed /\ ~b.crashed
        /\ a.it.mData = b.it.mData
        /\ a.it.mRemaining = b.it.mRemaining

\* C24: for the same storage state and the same requested types, FlatView
\* and FlatComponentView step through identical cursor states (position,
\* remaining): after begin() and end(), and after ++ from any cursor state
\* the loop reaches.
\* Violated: over an array of 0 sectors begin() and end() of both views are
\* undefined (C20), and neither view is bound to any cursor state.
C24_SameCursorInBothViews ==
    /\ pc = "constructed" =>
          /\ SameCursor(IteratorCtor("FlatView", begin(view)),
                        IteratorCtor("FlatComponentView", begin(view)))
          /\ SameCursor(IteratorCtor("FlatView", end(view)),
                        IteratorCtor("FlatComponentView", end(view)))
    /\ pc = "body" =>
          SameCursor(Increment("FlatView", it),
                     Increment("FlatComponentView", it))

\* C24 over an array that held a sector when the view was constructed: holds
C24_WhenNotEmpty == view.mSize > 0 => C24_SameCursorInBothViews

\* The second loop over the view has ended, and no loop body wrote
SecondPassOver ==
    bench.name = "pass" /\ pc \in {"done", "crashed"} /\ writes = <<>>

C25_State == SecondPassOver => pc = "done" /\ produced = bench.first

\* ++it changes the iterator it is applied to and nothing else obtained from
\* the view
C25_Step == (pc = "body" /\ it' # it) => (endIt' = endIt /\ view' = view)

\* C25: begin() does not consume the view: a second for-loop over the same
\* view, the storage unchanged, produces the same sequence as the first, and
\* advancing one iterator leaves the other iterator obtained from the view
\* (end()) as it was.
\* Violated: over an array of 0 sectors each begin() is undefined (C20), and
\* the two passes need not agree.
C25_BeginDoesNotConsume == []C25_State /\ [][C25_Step]_vars

\* C25 when no operation of either pass was undefined: holds
C25_WhenDefined == [](~ub => C25_State) /\ [][C25_Step]_vars

\* A second pass that produced a sector
C25_SecondPassProduced ==
    SecondPassOver /\ pc = "done" /\ ~ub /\ Len(produced) > 1

\* The address lies inside the extent the view captured:
\* [base, base + stride * count)
InExtent(a) ==
    /\ view.mBasePtr <= a
    /\ a < view.mBasePtr + view.mStride * view.mSize

\* C26: skipDead issues a prefetch hint only at a loop iteration where more
\* than one sector remains, and the target (position + stride) lies inside
\* the extent [base, base + stride * count) of the snapshot; an iteration
\* that issued hints has the position, the remaining count and the produced
\* sequence of the iteration without them.
\* Violated: over an array of 0 sectors begin() and end() are undefined (C20);
\* an iterator left with no sector remaining and advanced once more has its
\* count wrap (C22), and skipDead hints beyond an extent that is empty.
C26_PrefetchInsideExtent ==
    /\ \A h \in hinted : h.left > 1 /\ InExtent(h.target)
    /\ (hinted # {} /\ Iterating) =>
          /\ it.mData = view.mBasePtr
                          + view.mStride * (view.mSize - it.mRemaining)
          /\ (pc = "done" /\ AllHosted) => produced = VisibleSeq

\* C26 where no assumption of the iterators is violated: holds
C26_WhenDefined == ~ub => C26_PrefetchInsideExtent

\* Hints were issued and the iteration has ended
C26_HintsIssued == ~ub /\ pc = "done" /\ Cardinality(hinted) > 1

\* The entities of the registry r, a sequence of component sets indexed from
\* entity 0, that lie in the k-th run of 10 and have exactly the components C
Having(r, k, C) == {i \in 10 * k .. 10 * k + 9 : r[i + 1] = C}

\* The run of 10 entities starting at entity 10 * k is split 4 / 3 / 2 / 1
SplitAsStated(r, k) ==
    /\ Cardinality(Having(r, k, {"Transform"})) = 4
    /\ Cardinality(Having(r, k, {"Transform", "Sprite"})) = 3
    /\ Cardinality(Having(r, k, {"Transform", "RigidBody"})) = 2
    /\ Cardinality(Having(r, k, {"Transform", "Sprite", "RigidBody"})) = 1

\* The split the three routines produce: 2 / 3 / 2 / 3
SplitAsCoded(r, k) ==
    /\ Cardinality(Having(r, k, {"Transform"})) = 2
    /\ Cardinality(Having(r, k, {"Transform", "Sprite"})) = 3
    /\ Cardinality(Having(r, k, {"Transform", "RigidBody"})) = 2
    /\ Cardinality(Having(r, k, {"Transform", "Sprite", "RigidBody"})) = 3

\* The registries of the three libraries
Registries == {bench.ecss, bench.entt, bench.flecs}

\* Entity i has the same components in every registry that holds it
SameArchetypes ==
    \A r1 \in Registries, r2 \in Registries :
        \A i \in 1 .. Len(r1) : i <= Len(r2) => r1[i] = r2[i]

\* C28: in mixed_archetypes, of every 10 consecutive entities (i % 10 =
\* 0..9) 4 have Transform only, 3 Transform+Sprite, 2 Transform+RigidBody
\* and 1 all three, and the ecss, entt and flecs variants give entity i the
\* same component set.
\* Violated: the three routines agree, but the thresholds they test
\* (type >= 4 for Sprite, type >= 7 || type < 2 for RigidBody) give 2 / 3 /
\* 2 / 3, not the 40% / 30% / 20% / 10% the routine's comment announces.
C28_ArchetypeSplit ==
    /\ \A r \in Registries :
          \A k \in 0 .. MaxEntities : 10 * k + 10 <= Len(r) => SplitAsStated(r, k)
    /\ SameArchetypes

\* What holds of mixed_archetypes: the variants agree, on a 2 / 3 / 2 / 3
\* split
C28_AsCoded ==
    /\ \A r \in Registries :
          \A k \in 0 .. MaxEntities : 10 * k + 10 <= Len(r) => SplitAsCoded(r, k)
    /\ SameArchetypes

\* Two full runs of 10 entities in each registry
C28_TwoRuns == \A r \in Registries : Len(r) >= 20

\* The entity as the three libraries hold it
Variants == {bench.ecss, bench.entt, bench.flecs}

\* C29: the transition logic of ai_state_machine is the same function in the
\* ecss, entt and flecs variants: from every state an entity reaches, and
\* with it every outcome of the distance and timer guards, the three lambdas
\* give the same next state and the same timer, the variants that have run
\* the same number of frames hold the same entity, and the state stays in
\* 0..3.
C29_SameTransitionFunction ==
    /\ \A v \in Variants :
          /\ v.ai.state \in 0 .. 3
          /\ ecss_r_ai(v.ai) = entt_r_ai(v.ai)
          /\ entt_r_ai(v.ai) = flecs_r_ai(v.ai)
    /\ \A v \in Variants, w \in Variants : v.frames = w.frames => v.ai = w.ai

\* C29 witness: the three variants have entered the attack state, the timer
\* reset to one second
C29_Witness ==
    \A v \in Variants :
        v.frames > 0 /\ v.ai.state = 3 /\ v.ai.timer = TicksPerSecond

\* C29 witness: the three variants left the idle state on the timer
C29_WitnessTimer ==
    \A v \in Variants :
        v.frames > 0 /\ v.ai.state = 1 /\ v.ai.timer = 3 * TicksPerSecond

\* The registries of entity_churn
Churned == {bench.ecss, bench.entt, bench.flecs}

\* C30: in entity_churn, after every frame the tracked list holds exactly n
\* entities; each frame destroys exactly churnRate = n / 10 entities, the
\* oldest tracked ones, and spawns exactly churnRate, in the three variants
\* alike, and the list is never indexed out of range.
C30_ChurnKeepsPopulation ==
    /\ \A v \in Churned :
          LET gone == v.frame * (bench.n \div 10)
          IN /\ Len(v.entities) = bench.n
             /\ v.destroyed = gone
             /\ v.spawned = gone
             /\ v.entities = [j \in 1 .. bench.n |-> gone + j - 1]
             /\ v.alive = {v.entities[j] : j \in 1 .. bench.n}
             /\ ~v.oob
    /\ \A v \in Churned, w \in Churned : v.frame = w.frame => v = w

\* C30 witness: two entities churned per frame, two frames run by each
\* variant
C30_Witness ==
    /\ bench.n \div 10 = 2
    /\ \A v \in Churned : v.frame >= 2 /\ v.destroyed = 4

=============================================================================
